---- MODULE Spec2Model ----
(***************************************************************************)
(* Change tracking and history serialization of bonsai-trie                *)
(* (src/src/changes.rs): Change, ChangeBatch::insert_in_place,             *)
(* ChangeBatch::serialize, ChangeBatch::deserialize and ChangeStore.       *)
(***************************************************************************)
EXTENDS Naturals, Sequences, FiniteSets, TLC

VARIABLES
    batch,      \* the open ChangeBatch (ChangeStore.current_changes): TrieKey -> Change
    hist,       \* history: for every key, the changes inserted for it, oldest first
    id,         \* id.to_bytes() of the identifier in use
    emitted,    \* the Vec returned by the last serialize
    db,         \* the records the backing store holds (a set)
    input,      \* the Vec of records handed to deserialize
    restored,   \* the ChangeBatch returned by the last deserialize
    outcome,    \* how the last deserialize ended
    status,     \* "running", or "panicked" once a panic! was executed
    base,       \* value of every key before the version's mutations began
    live,       \* current value of every key in the trie
    last,       \* the operation executed last
    id_queue    \* ChangeStore.id_queue: the committed identifiers, newest at the back

vars == <<batch, hist, id, emitted, db, input, restored, outcome, status, base, live, last, id_queue>>

----------------------------------------------------------------------------
(* Bounds of the model *)

\* most calls of insert_in_place in one behaviour
MaxInserts == 3
\* most keys of a batch drawn as the input of serialize
MaxKeys == 2
\* most records in a list handed to deserialize
MaxRecords == 3
\* most writes of the trie engine in one version
MaxWrites == 3

----------------------------------------------------------------------------
(* Values *)

\* Option<T>: None is the empty sequence, Some(v) the one-element sequence
None == << >>
Some(v) == << v >>
is_some(o) == o # None
is_none(o) == o = None
unwrap(o) == o[1]

\* SByteVec values the model draws from: the empty one and a one-byte one
Values == { << >>, <<1>> }
OptValues == {None} \cup {Some(v) : v \in Values}

\* struct Change { old_value, new_value }
Change(old, new) == [old_value |-> old, new_value |-> new]
Changes == {Change(o, n) : o \in OptValues, n \in OptValues}
\* Change::default()
ChangeDefault == Change(None, None)

\* TrieKey: a variant byte and a payload
TrieKey(variant, payload) == [variant |-> variant, payload |-> payload]
\* TrieKey::as_slice
as_slice(key) == key.payload
\* From<&TrieKey> for u8
variant_byte(key) == key.variant
\* TrieKey::from_variant_and_bytes
from_variant_and_bytes(variant, bytes) == TrieKey(variant, bytes)

\* identifiers, as id.to_bytes()
Ids == { <<7>>, <<7, 1>> }

KEY_SEPARATOR == 0
NEW_VALUE == 0
OLD_VALUE == 1

\* ChangeBatch(HashMap::new())
EmptyBatch == [k \in {} |-> ChangeDefault]

\* all sequences over S of length at most n
SeqsUpTo(S, n) == UNION {[1..m -> S] : m \in 0..n}
\* the sequences that list every element of the finite set S once
Orders(S) == {o \in [1..Cardinality(S) -> S] : \A i, j \in 1..Cardinality(S) : o[i] = o[j] => i = j}

----------------------------------------------------------------------------
(* ChangeBatch::insert_in_place *)

\* a variant of the Occupied branch that overwrites old_value on every insert
merge_occupied_overwrite(e, change) ==
    [old_value |-> change.old_value, new_value |-> change.new_value]

\* a variant of the Occupied branch that takes new_value from the wrong field
merge_occupied_new_from_old(e, change) ==
    [old_value |-> IF is_none(e.old_value) THEN change.old_value ELSE e.old_value,
     new_value |-> change.old_value]

\* a variant of the Occupied branch that keeps new_value when the incoming one is absent
merge_occupied_keep_new(e, change) ==
    [old_value |-> IF is_none(e.old_value) THEN change.old_value ELSE e.old_value,
     new_value |-> IF is_none(change.new_value) THEN e.new_value ELSE change.new_value]

\* the Occupied branch
merge_occupied(e, change) ==
    [old_value |-> IF is_none(e.old_value) THEN change.old_value ELSE e.old_value,
     new_value |-> change.new_value]

\* a variant whose Vacant branch builds the map from the new entry alone
insert_in_place_vacant_clears(b, key, change) ==
    IF key \in DOMAIN b
    THEN [b EXCEPT ![key] = merge_occupied(b[key], change)]
    ELSE [k \in {key} |-> change]

insert_in_place(b, key, change) ==
    IF key \in DOMAIN b
    THEN [b EXCEPT ![key] = merge_occupied(b[key], change)]
    ELSE [k \in DOMAIN b \cup {key} |-> IF k = key THEN change ELSE b[k]]

----------------------------------------------------------------------------
(* ChangeBatch::serialize *)

record_key(idb, key, side) ==
    idb \o <<KEY_SEPARATOR>> \o as_slice(key) \o <<variant_byte(key)>> \o <<side>>

\* a variant of the closure without the early return for equal values
entry_records_no_elision(idb, key, change) ==
    (IF is_some(change.old_value)
     THEN << <<record_key(idb, key, OLD_VALUE), unwrap(change.old_value)>> >>
     ELSE << >>)
    \o
    (IF is_some(change.new_value)
     THEN << <<record_key(idb, key, NEW_VALUE), unwrap(change.new_value)>> >>
     ELSE << >>)

\* a variant of the closure with the two side tags exchanged
entry_records_swapped(idb, key, change) ==
    IF is_some(change.old_value) /\ is_some(change.new_value)
       /\ change.old_value = change.new_value
    THEN << >>
    ELSE (IF is_some(change.old_value)
          THEN << <<record_key(idb, key, NEW_VALUE), unwrap(change.old_value)>> >>
          ELSE << >>)
         \o
         (IF is_some(change.new_value)
          THEN << <<record_key(idb, key, OLD_VALUE), unwrap(change.new_value)>> >>
          ELSE << >>)

\* the closure of flat_map: the records of one entry
entry_records(idb, key, change) ==
    IF is_some(change.old_value) /\ is_some(change.new_value)
       /\ change.old_value = change.new_value
    THEN << >>
    ELSE (IF is_some(change.old_value)
          THEN << <<record_key(idb, key, OLD_VALUE), unwrap(change.old_value)>> >>
          ELSE << >>)
         \o
         (IF is_some(change.new_value)
          THEN << <<record_key(idb, key, NEW_VALUE), unwrap(change.new_value)>> >>
          ELSE << >>)

RECURSIVE flat_map(_, _, _)
flat_map(idb, b, order) ==
    IF order = << >> THEN << >>
    ELSE entry_records(idb, Head(order), b[Head(order)]) \o flat_map(idb, b, Tail(order))

\* order: the order in which the HashMap iterates over its keys
serialize(b, idb, order) == flat_map(idb, b, order)

----------------------------------------------------------------------------
(* ChangeBatch::deserialize *)

\* the state of the loop: the local variables, and the message of the panic! met
LoopInit ==
    [change_batch |-> EmptyBatch, current_change |-> ChangeDefault,
     last_key |-> None, panic |-> ""]

\* key.pop() twice, then TrieKey::from_variant_and_bytes(key_type, key[id.len() + 1..])
parse_change_type(key) == key[Len(key)]
parse_key_type(key) == key[Len(key) - 1]
parse_change_key(idb, key) ==
    from_variant_and_bytes(parse_key_type(key), SubSeq(key, Len(idb) + 2, Len(key) - 2))

\* a variant of the flush that does not start a new accumulator
flush_on_new_key_no_reset(st, change_key) ==
    IF is_some(st.last_key) /\ unwrap(st.last_key) # change_key
    THEN [st EXCEPT !.change_batch = insert_in_place(@, unwrap(st.last_key), st.current_change)]
    ELSE st

\* a variant of the flush that starts the new accumulator before it inserts the old one
flush_on_new_key_reset_first(st, change_key) ==
    IF is_some(st.last_key) /\ unwrap(st.last_key) # change_key
    THEN [st EXCEPT !.change_batch = insert_in_place(@, unwrap(st.last_key), ChangeDefault),
                    !.current_change = ChangeDefault]
    ELSE st

\* if let Some(last_key) = last_key { if last_key != change_key { ... } }
flush_on_new_key(st, change_key) ==
    IF is_some(st.last_key) /\ unwrap(st.last_key) # change_key
    THEN [st EXCEPT !.change_batch = insert_in_place(@, unwrap(st.last_key), st.current_change),
                    !.current_change = ChangeDefault]
    ELSE st

\* match change_type { NEW_VALUE => ..., OLD_VALUE => ..., _ => panic! }
assign_side(st, change_type, value, change_key) ==
    IF change_type = NEW_VALUE
    THEN [st EXCEPT !.current_change.new_value = Some(value), !.last_key = Some(change_key)]
    ELSE IF change_type = OLD_VALUE
    THEN [st EXCEPT !.current_change.old_value = Some(value), !.last_key = Some(change_key)]
    ELSE [st EXCEPT !.panic = "Invalid change type"]

\* a variant of the iteration whose length check is off by one
loop_body_short_check(idb, st, rec) ==
    IF Len(rec[1]) < Len(idb) + 2
    THEN [st EXCEPT !.panic = "Invalid key format"]
    ELSE LET change_key == parse_change_key(idb, rec[1])
         IN assign_side(flush_on_new_key(st, change_key),
                        parse_change_type(rec[1]), rec[2], change_key)

\* a variant of the iteration that rejects a key without the separator after the id
loop_body_checks_separator(idb, st, rec) ==
    IF Len(rec[1]) < Len(idb) + 3 \/ rec[1][Len(idb) + 1] # KEY_SEPARATOR
    THEN [st EXCEPT !.panic = "Invalid key format"]
    ELSE LET change_key == parse_change_key(idb, rec[1])
         IN assign_side(flush_on_new_key(st, change_key),
                        parse_change_type(rec[1]), rec[2], change_key)

\* one iteration of the for loop, on the record <<key, value>>
loop_body(idb, st, rec) ==
    IF Len(rec[1]) < Len(idb) + 3
    THEN [st EXCEPT !.panic = "Invalid key format"]
    ELSE LET change_key == parse_change_key(idb, rec[1])
         IN assign_side(flush_on_new_key(st, change_key),
                        parse_change_type(rec[1]), rec[2], change_key)

\* the for loop over changes[i..]; a panic! ends it
RECURSIVE for_loop(_, _, _, _)
for_loop(idb, changes, i, st) ==
    IF i > Len(changes) \/ st.panic # "" THEN st
    ELSE for_loop(idb, changes, i + 1, loop_body(idb, st, changes[i]))

\* a variant without the flush after the loop
final_flush_missing(st) == st.change_batch

\* the flush after the loop
final_flush(st) ==
    IF is_some(st.last_key)
       /\ (is_some(st.current_change.new_value) \/ is_some(st.current_change.old_value))
    THEN insert_in_place(st.change_batch, unwrap(st.last_key), st.current_change)
    ELSE st.change_batch

\* the result: the message of the panic! ("" when the call returns) and the batch returned
deserialize(idb, changes) ==
    LET st == for_loop(idb, changes, 1, LoopInit)
    IN IF st.panic # ""
       THEN [panic |-> st.panic, change_batch |-> EmptyBatch]
       ELSE [panic |-> "", change_batch |-> final_flush(st)]

----------------------------------------------------------------------------
(* Main specification: the open batch of a version *)

\* the keys the trie engine writes in the main specification
BatchKeys == {TrieKey(0, << >>), TrieKey(0, <<0>>), TrieKey(1, <<0>>)}

\* the number of changes inserted so far
Inserts == LET Sum[S \in SUBSET BatchKeys] ==
                   IF S = {} THEN 0
                   ELSE LET k == CHOOSE x \in S : TRUE IN Len(hist[k]) + Sum[S \ {k}]
           IN Sum[BatchKeys]

\* a variant of ChangeStore::new that starts from a batch with an entry
ChangeStore_new_stale ==
    [id_queue |-> << >>,
     current_changes |-> [k \in {TrieKey(0, << >>)} |-> Change(None, Some(<<1>>))]]

\* ChangeStore::new()
ChangeStore_new ==
    [id_queue |-> << >>, current_changes |-> EmptyBatch]

Init ==
    /\ batch = ChangeStore_new.current_changes
    /\ hist = [k \in BatchKeys |-> << >>]
    /\ id = <<7>>
    /\ emitted = << >>
    /\ db = {}
    /\ input = << >>
    /\ restored = EmptyBatch
    /\ outcome = "none"
    /\ status = "running"
    /\ base = << >>
    /\ live = << >>
    /\ last = "new"
    /\ id_queue = ChangeStore_new.id_queue

InsertInPlace(key, change) ==
    /\ status = "running"
    /\ Inserts < MaxInserts
    /\ batch' = insert_in_place(batch, key, change)
    /\ hist' = [hist EXCEPT ![key] = Append(@, change)]
    /\ last' = "insert_in_place"
    \* the Vec of serialize borrows the batch: it is dropped before the batch is mutated
    /\ emitted' = << >>
    /\ UNCHANGED <<id, db, input, restored, outcome, status, base, live, id_queue>>

Serialize(idb, order) ==
    /\ status = "running"
    /\ emitted' = serialize(batch, idb, order)
    /\ id' = idb
    /\ last' = "serialize"
    /\ UNCHANGED <<batch, hist, db, input, restored, outcome, status, base, live, id_queue>>

\* a call of insert_in_place for any key and Change
InsertAny ==
    /\ Inserts < MaxInserts
    /\ \E key \in BatchKeys, change \in Changes : InsertInPlace(key, change)

\* a call of serialize under any identifier, the map iterating in any order
SerializeAny ==
    \E idb \in Ids, order \in Orders(DOMAIN batch) : Serialize(idb, order)

Next ==
    \/ InsertAny
    \/ SerializeAny

Spec == Init /\ [][Next]_vars

----------------------------------------------------------------------------
(* Decoding specification: record lists of the backing store are deserialized *)

\* the trie keys whose records the store returns
DecodeKeys == {TrieKey(0, << >>), TrieKey(0, <<0>>), TrieKey(1, << >>)}

\* the records the backing store may return for the identifier idb: the two sides of
\* every key, records with an unknown side tag, and records with a key too short
StoreRecords(idb) ==
    {<<idb \o <<KEY_SEPARATOR>> \o k.payload \o <<k.variant, side>>, v>> :
        k \in DecodeKeys, side \in {NEW_VALUE, OLD_VALUE}, v \in Values}
    \cup {<<idb \o <<KEY_SEPARATOR, 0, 2>>, <<1>>>>, <<idb \o <<KEY_SEPARATOR, 1, 2>>, << >>>>}
    \cup {<<idb \o <<KEY_SEPARATOR, 1>>, <<1>>>>, << << >>, << >> >>}

\* the caller reads the records of a version from the backing store
Scan(idb, recs) ==
    /\ status = "running"
    /\ last = "new"
    /\ id' = idb
    /\ input' = recs
    /\ outcome' = "none"
    /\ restored' = EmptyBatch
    /\ last' = "scan"
    /\ UNCHANGED <<batch, hist, emitted, db, status, base, live, id_queue>>

\* ChangeBatch::deserialize(id, input): it returns a batch, or a panic! ends the process
Deserialize ==
    /\ status = "running"
    /\ last \in {"scan", "scan_sorted", "scan_grouped"}
    /\ LET r == deserialize(id, input)
       IN IF r.panic # ""
          THEN /\ status' = "panicked"
               /\ outcome' = r.panic
               /\ UNCHANGED restored
          ELSE /\ status' = "running"
               /\ outcome' = "ok"
               /\ restored' = r.change_batch
    /\ last' = "deserialize"
    /\ UNCHANGED <<batch, hist, id, emitted, db, input, base, live, id_queue>>

\* the caller merges an entry of the deserialized batch back into it
ReMerge(key) ==
    /\ status = "running"
    /\ last = "deserialize"
    /\ key \in DOMAIN restored
    /\ restored' = insert_in_place(restored, key, restored[key])
    /\ last' = "remerge"
    /\ UNCHANGED <<batch, hist, id, emitted, db, input, outcome, status, base, live, id_queue>>

\* the caller drops the batch it got and is ready for the query of another version
Drop ==
    /\ status = "running"
    /\ last \in {"deserialize", "remerge"}
    /\ id' = <<7>>
    /\ input' = << >>
    /\ outcome' = "none"
    /\ restored' = EmptyBatch
    /\ last' = "new"
    /\ UNCHANGED <<batch, hist, emitted, db, status, base, live, id_queue>>

\* any list of at most MaxRecords records of the store, for any identifier
ScanAny ==
    /\ last = "new"
    /\ \E idb \in Ids : \E recs \in SeqsUpTo(StoreRecords(idb), MaxRecords) : Scan(idb, recs)

NextDecode ==
    \/ ScanAny
    \/ Deserialize
    \/ \E key \in DecodeKeys : ReMerge(key)
    \/ Drop

SpecDecode == Init /\ [][NextDecode]_vars

----------------------------------------------------------------------------
(* Write specification: the trie engine records every write of a version *)

\* the keys the trie engine writes in the write specification
WriteKeys == {TrieKey(0, << >>), TrieKey(1, <<0>>)}

InitWrites ==
    /\ batch = EmptyBatch
    /\ hist = [k \in BatchKeys |-> << >>]
    /\ id = <<7>>
    /\ emitted = << >>
    /\ db = {}
    /\ input = << >>
    /\ restored = EmptyBatch
    /\ outcome = "none"
    /\ status = "running"
    /\ base \in [WriteKeys -> OptValues]
    /\ live = base
    /\ last = "new"
    /\ id_queue = << >>

\* a write of the trie engine: value is Some(v) for an insert, None for a removal; the
\* Change it records holds the key's value just before the write and the one after it
Write(key, value) ==
    /\ status = "running"
    /\ Inserts < MaxWrites
    /\ batch' = insert_in_place(batch, key, Change(live[key], value))
    /\ hist' = [hist EXCEPT ![key] = Append(@, Change(live[key], value))]
    /\ live' = [live EXCEPT ![key] = value]
    /\ last' = "write"
    /\ UNCHANGED <<id, emitted, db, input, restored, outcome, status, base, id_queue>>

NextWrites == \E key \in WriteKeys, value \in OptValues : Write(key, value)

SpecWrites == InitWrites /\ [][NextWrites]_vars

----------------------------------------------------------------------------
(* Codec specification: a batch is serialized, stored, read back and deserialized *)

\* the trie keys of the batches that are serialized
CodecKeys == {TrieKey(0, << >>), TrieKey(0, <<0>>), TrieKey(1, << >>), TrieKey(1, <<0>>)}

\* the batches of at most MaxKeys keys
CodecBatches ==
    UNION {[S -> Changes] : S \in {T \in SUBSET CodecKeys : Cardinality(T) <= MaxKeys}}

InitCodec ==
    /\ batch \in CodecBatches
    /\ hist = [k \in BatchKeys |-> << >>]
    /\ id = <<7>>
    /\ emitted = << >>
    /\ db = {}
    /\ input = << >>
    /\ restored = EmptyBatch
    /\ outcome = "none"
    /\ status = "running"
    /\ base = << >>
    /\ live = << >>
    /\ last = "new"
    /\ id_queue = << >>

\* the commit: the batch is serialized under an identifier
Commit ==
    /\ last = "new"
    /\ \E idb \in Ids, order \in Orders(DOMAIN batch) : Serialize(idb, order)

\* the backing store takes the records: it maps every record key to its value
Persist ==
    /\ status = "running"
    /\ last = "serialize"
    /\ db' = {emitted[i] : i \in 1..Len(emitted)}
    /\ emitted' = << >>
    /\ last' = "persist"
    /\ UNCHANGED <<batch, hist, id, input, restored, outcome, status, base, live, id_queue>>

\* lexicographic byte order: a is before b
LexLess(a, b) ==
    \/ Len(a) < Len(b) /\ SubSeq(b, 1, Len(a)) = a
    \/ \E i \in 1..Len(a) :
          /\ i <= Len(b)
          /\ SubSeq(a, 1, i - 1) = SubSeq(b, 1, i - 1)
          /\ a[i] < b[i]

\* the records of the set S in lexicographic order of their keys
RECURSIVE SortLex(_)
SortLex(S) ==
    IF S = {} THEN << >>
    ELSE LET first == CHOOSE r \in S : \A q \in S \ {r} : LexLess(r[1], q[1])
         IN <<first>> \o SortLex(S \ {first})

\* the trie keys that have a record in the set S
KeysIn(idb, S) ==
    {k \in CodecKeys : \E r \in S, side \in {NEW_VALUE, OLD_VALUE} : r[1] = record_key(idb, k, side)}

\* the records of the trie key k in S, the new one first or the old one first
GroupOf(idb, S, k, new_first) ==
    LET new == SortLex({r \in S : r[1] = record_key(idb, k, NEW_VALUE)})
        old == SortLex({r \in S : r[1] = record_key(idb, k, OLD_VALUE)})
    IN IF new_first THEN new \o old ELSE old \o new

\* the groups of the keys of order, one after the other
RECURSIVE Groups(_, _, _, _)
Groups(idb, S, order, new_first) ==
    IF order = << >> THEN << >>
    ELSE GroupOf(idb, S, Head(order), new_first[Head(order)])
         \o Groups(idb, S, Tail(order), new_first)

\* the store returns its records in lexicographic order of their keys
ScanSorted ==
    /\ status = "running"
    /\ last = "persist"
    /\ input' = SortLex(db)
    /\ last' = "scan_sorted"
    /\ UNCHANGED <<batch, hist, id, emitted, db, restored, outcome, status, base, live, id_queue>>

\* the store returns its records grouped by trie key, in any order of the groups and
\* of the two sides in a group
ScanGrouped ==
    /\ status = "running"
    /\ last = "persist"
    /\ \E order \in Orders(KeysIn(id, db)), new_first \in [KeysIn(id, db) -> BOOLEAN] :
          input' = Groups(id, db, order, new_first)
    /\ last' = "scan_grouped"
    /\ UNCHANGED <<batch, hist, id, emitted, db, restored, outcome, status, base, live, id_queue>>

NextCodec ==
    \/ Commit
    \/ Persist
    \/ ScanSorted
    \/ ScanGrouped
    \/ Deserialize

SpecCodec == InitCodec /\ [][NextCodec]_vars

----------------------------------------------------------------------------
(* Foreign-prefix specification: the store returns records under other prefixes *)

\* the trie keys of the records with foreign prefixes
ForeignKeys == {TrieKey(0, << >>), TrieKey(1, <<0>>)}

\* what may precede the payload in a record key read for idb: the identifier and the
\* separator, another identifier of the same length, or a byte that is no separator
Prefixes(idb) ==
    {idb \o <<KEY_SEPARATOR>>, [i \in 1..Len(idb) |-> 9] \o <<KEY_SEPARATOR>>, idb \o <<1>>}

\* the well-formed records of the trie keys under each of these prefixes
ForeignRecords(idb) ==
    {<<pre \o k.payload \o <<k.variant, side>>, v>> :
        pre \in Prefixes(idb), k \in ForeignKeys, side \in {NEW_VALUE, OLD_VALUE}, v \in Values}

\* the caller reads a list of records whose prefixes are not all its identifier's
ScanForeign ==
    /\ last = "new"
    /\ \E idb \in Ids : \E recs \in SeqsUpTo(ForeignRecords(idb), MaxRecords) : Scan(idb, recs)

NextForeign ==
    \/ ScanForeign
    \/ Deserialize
    \/ Drop

SpecForeign == Init /\ [][NextForeign]_vars

----------------------------------------------------------------------------
(* Properties of the open batch *)

\* the first old_value of the sequence h of changes that is present, None if there is none
FirstPresentOld(h) ==
    LET present == {i \in 1..Len(h) : h[i].old_value # << >>}
    IN IF present = {} THEN << >>
       ELSE h[CHOOSE i \in present : \A j \in present : i <= j].old_value

\* a Change whose two sides are present and byte-equal
IsNoOp(c) == c.old_value # << >> /\ c.new_value # << >> /\ c.old_value = c.new_value

\* the record key the persisted format prescribes for a side of a trie key
FormatKey(idb, key, side) == idb \o <<0>> \o key.payload \o <<key.variant>> \o <<side>>

\* C1 (merge law): after the changes hist[k] were inserted in sequence for a key k
\* that the batch did not contain, the stored Change of k has as old_value the first
\* old_value of the sequence that is present (absent if none is) and as new_value
\* the new_value of the last change of the sequence.
C1_MergeLaw ==
    \A k \in BatchKeys :
        /\ (k \in DOMAIN batch) <=> (hist[k] # << >>)
        /\ hist[k] # << >> =>
              /\ batch[k].old_value = FirstPresentOld(hist[k])
              /\ batch[k].new_value = hist[k][Len(hist[k])].new_value

\* three inserts for one key: the first without old_value, then two with different ones
C1_Witness ==
    \E k \in BatchKeys :
        /\ Len(hist[k]) = 3
        /\ hist[k][1].old_value = << >>
        /\ hist[k][2].old_value # << >>
        /\ hist[k][3].old_value # << >>
        /\ hist[k][3].old_value # hist[k][2].old_value
        /\ hist[k][3].new_value # hist[k][2].new_value
        /\ batch[k].old_value = hist[k][2].old_value

\* the trie keys that have at least one record in the sequence recs, under identifier idb
KeysWithRecords(idb, recs, keys) ==
    {k \in keys : \E i \in 1..Len(recs), side \in {0, 1} : recs[i][1] = FormatKey(idb, k, side)}

\* C5 (no-op elision): after any sequence of insert_in_place calls, serialize emits
\* no record for a key whose coalesced Change has both sides present and byte-equal.
C5_NoOpElision ==
    last = "serialize" =>
        \A k \in DOMAIN batch :
            IsNoOp(batch[k]) => k \notin KeysWithRecords(id, emitted, BatchKeys)

\* a key written and then written back to its recorded old value, serialized next to
\* a key that does have records
C5_Witness ==
    /\ last = "serialize"
    /\ \E k \in DOMAIN batch :
          /\ Len(hist[k]) = 2
          /\ ~IsNoOp(hist[k][1])
          /\ hist[k][1].old_value # << >>
          /\ IsNoOp(batch[k])
          /\ k \notin KeysWithRecords(id, emitted, BatchKeys)
    /\ emitted # << >>

\* the records the persisted format prescribes for the batch b under identifier idb
FormatRecords(idb, b) ==
    {<<FormatKey(idb, k, 1), b[k].old_value[1]>> :
        k \in {x \in DOMAIN b : ~IsNoOp(b[x]) /\ b[x].old_value # << >>}}
    \cup
    {<<FormatKey(idb, k, 0), b[k].new_value[1]>> :
        k \in {x \in DOMAIN b : ~IsNoOp(b[x]) /\ b[x].new_value # << >>}}

\* C6 (record format): serialize emits, for every key that is not elided, exactly one
\* record per present side, with key id ++ [0] ++ payload ++ [variant] ++ [side]
\* (side 0 for new_value, 1 for old_value) and the side's bytes as value, and
\* nothing else.
C6_RecordFormat ==
    last = "serialize" =>
        /\ {emitted[i] : i \in 1..Len(emitted)} = FormatRecords(id, batch)
        /\ Len(emitted) = Cardinality(FormatRecords(id, batch))

\* a serialized batch with a key of two different sides and a key with one side only
C6_Witness ==
    /\ last = "serialize"
    /\ \E k1, k2 \in DOMAIN batch :
          /\ k1 # k2
          /\ batch[k1].old_value # << >> /\ batch[k1].new_value # << >>
          /\ batch[k1].old_value # batch[k1].new_value
          /\ batch[k2].old_value = << >> /\ batch[k2].new_value # << >>
    /\ Len(emitted) = 3

----------------------------------------------------------------------------
(* Properties of deserialize *)

\* a record key too short to hold separator, variant tag and side tag
TooShort(idb, key) == Len(key) < Len(idb) + 3
\* a record key of sufficient length whose final byte is neither 0x00 nor 0x01
BadSideTag(idb, key) == ~TooShort(idb, key) /\ key[Len(key)] \notin {0, 1}
\* the positions of the malformed records of recs
Malformed(idb, recs) ==
    {i \in 1..Len(recs) : TooShort(idb, recs[i][1]) \/ BadSideTag(idb, recs[i][1])}
\* the first malformed record: the one deserialize reaches
FirstMalformed(idb, recs) ==
    CHOOSE i \in Malformed(idb, recs) : \A j \in Malformed(idb, recs) : i <= j

\* the trie key and the side a well-formed record key names
TrieKeyOf(idb, key) ==
    [variant |-> key[Len(key) - 1], payload |-> SubSeq(key, Len(idb) + 2, Len(key) - 2)]
SideOf(key) == key[Len(key)]

\* C7 (malformed input is recoverable): when deserialize meets a record whose key is
\* too short or whose side tag is unrecognised, the process keeps running, so that a
\* later deserialize call can still be made.
C7_Recoverable ==
    (last = "deserialize" /\ Malformed(id, input) # {}) => status = "running"

\* C8 (malformed input detection): deserialize ends with the malformed-key outcome
\* ("Invalid key format") exactly when the record it reaches first among the malformed
\* ones has a key shorter than len(id) + 3, with the unknown-side-tag outcome
\* ("Invalid change type") exactly when that record has sufficient length and a final
\* byte outside {0, 1}, and it does not fail when no record is malformed.
C8_MalformedDetection ==
    last = "deserialize" =>
        /\ (outcome = "ok") <=> (Malformed(id, input) = {})
        /\ (outcome = "Invalid key format") <=>
              /\ Malformed(id, input) # {}
              /\ TooShort(id, input[FirstMalformed(id, input)][1])
        /\ (outcome = "Invalid change type") <=>
              /\ Malformed(id, input) # {}
              /\ BadSideTag(id, input[FirstMalformed(id, input)][1])

\* a well-formed record, then one with an unknown side tag, then one too short
C8_Witness ==
    /\ last = "deserialize"
    /\ Len(input) = 3
    /\ Malformed(id, input) = {2, 3}
    /\ BadSideTag(id, input[2][1])
    /\ TooShort(id, input[3][1])
    /\ outcome = "Invalid change type"

\* the records of every trie key are adjacent in recs
Grouped(idb, recs) ==
    \A i, j, l \in 1..Len(recs) :
        (i < j /\ j < l /\ TrieKeyOf(idb, recs[i][1]) = TrieKeyOf(idb, recs[l][1]))
            => TrieKeyOf(idb, recs[j][1]) = TrieKeyOf(idb, recs[i][1])
\* at most one record per trie key and side
OnePerSide(recs) ==
    \A i, j \in 1..Len(recs) : recs[i][1] = recs[j][1] => i = j
\* the value of the record of trie key k and the given side, None if there is none
SideValue(idb, recs, k, side) ==
    LET at == {i \in 1..Len(recs) : TrieKeyOf(idb, recs[i][1]) = k /\ SideOf(recs[i][1]) = side}
    IN IF at = {} THEN << >> ELSE << recs[CHOOSE i \in at : TRUE][2] >>

\* C9 (grouped deserialization): for a well-formed record list in which the records of
\* each trie key are adjacent and no (trie key, side) occurs twice, deserialize returns
\* a batch whose keys are exactly the trie keys of the records, each with old_value /
\* new_value equal to the value of its 0x01 / 0x00 record, absent if there is none.
C9_GroupedDeserialize ==
    (/\ last = "deserialize"
     /\ Malformed(id, input) = {}
     /\ Grouped(id, input)
     /\ OnePerSide(input))
    => /\ outcome = "ok"
       /\ DOMAIN restored = {TrieKeyOf(id, input[i][1]) : i \in 1..Len(input)}
       /\ \A k \in DOMAIN restored :
             /\ restored[k].old_value = SideValue(id, input, k, 1)
             /\ restored[k].new_value = SideValue(id, input, k, 0)

\* a key with a new record only, then a key whose new record precedes its old record
C9_Witness ==
    /\ last = "deserialize"
    /\ Len(input) = 3
    /\ Malformed(id, input) = {}
    /\ TrieKeyOf(id, input[1][1]) # TrieKeyOf(id, input[2][1])
    /\ TrieKeyOf(id, input[2][1]) = TrieKeyOf(id, input[3][1])
    /\ SideOf(input[1][1]) = 0 /\ SideOf(input[2][1]) = 0 /\ SideOf(input[3][1]) = 1
    /\ input[2][2] # input[3][2]
    /\ restored[TrieKeyOf(id, input[1][1])] = [old_value |-> << >>, new_value |-> <<input[1][2]>>]
    /\ restored[TrieKeyOf(id, input[2][1])] = [old_value |-> <<input[3][2]>>, new_value |-> <<input[2][2]>>]

\* C10 (idempotent re-merge): inserting an entry of a batch returned by deserialize
\* into that batch again, under its own key, leaves the batch unchanged; and for any
\* key and Change, inserting it twice in a row gives the batch that inserting it once
\* gives.
C10_IdempotentReMerge ==
    [][/\ last' = "remerge" => restored' = restored
       /\ \A k \in DecodeKeys, c \in Changes :
             insert_in_place(insert_in_place(restored', k, c), k, c)
                 = insert_in_place(restored', k, c)]_vars

\* an entry with two different sides was merged back into a batch of two keys
C10_Witness ==
    /\ last = "remerge"
    /\ Cardinality(DOMAIN restored) = 2
    /\ \E k \in DOMAIN restored :
          /\ restored[k].old_value # << >>
          /\ restored[k].new_value # << >>
          /\ restored[k].old_value # restored[k].new_value

----------------------------------------------------------------------------
(* Properties of the recorded writes and of the round trip *)

\* C2 (first-touch invariant): when every write of a key is recorded with the key's
\* value just before the write as old_value and the value after it as new_value, the
\* batch entry of the key has as old_value the value the key had before the version's
\* mutations began (absent if it did not exist) and as new_value the value the most
\* recent write left.
C2_FirstTouch ==
    \A k \in DOMAIN batch :
        /\ batch[k].old_value = base[k]
        /\ batch[k].new_value = live[k]

\* a Change whose two sides are absent
IsInert(c) == c.old_value = << >> /\ c.new_value = << >>

\* the batch b has no no-op entry
NoNoOps(b) == \A k \in DOMAIN b : ~IsNoOp(b[k])
\* the batch b has no inert entry
NoInert(b) == \A k \in DOMAIN b : ~IsInert(b[k])

\* the records handed to deserialize are the records serialize produced for the batch,
\* ordered so that the records of every trie key are adjacent
GroupedRoundTrip ==
    /\ last = "deserialize"
    /\ {input[i] : i \in 1..Len(input)} = FormatRecords(id, batch)
    /\ Len(input) = Cardinality(FormatRecords(id, batch))
    /\ Grouped(id, input)

\* C3 (round-trip law), as stated: for a batch without no-op entries, deserializing
\* the records of serialize, grouped by trie key, reconstructs the batch.
C3_RoundTrip ==
    (GroupedRoundTrip /\ NoNoOps(batch)) => (outcome = "ok" /\ restored = batch)

\* C3, amended: for a batch without no-op entries and without entries whose two sides
\* are absent, deserializing the records of serialize, grouped by trie key,
\* reconstructs the batch.
C3_RoundTripAmended ==
    (GroupedRoundTrip /\ NoNoOps(batch) /\ NoInert(batch))
        => (outcome = "ok" /\ restored = batch)

\* a batch of two keys, one with two different sides and one with a single side, came
\* back from records whose order is not the order serialize writes a group in
C3_Witness ==
    /\ GroupedRoundTrip /\ NoNoOps(batch) /\ NoInert(batch)
    /\ Cardinality(DOMAIN batch) = 2
    /\ Len(input) = 3
    /\ \E i \in 1..2 : /\ TrieKeyOf(id, input[i][1]) = TrieKeyOf(id, input[i + 1][1])
                        /\ SideOf(input[i][1]) = 0
                        /\ input[i][2] # input[i + 1][2]
    /\ restored = batch

\* C4 (lexicographic order gives adjacency): when the records of serialize are sorted
\* in lexicographic byte order of their keys, the records of the same trie key are
\* next to each other.
C4_LexAdjacent ==
    last = "scan_sorted" => Grouped(id, input)

----------------------------------------------------------------------------
(* Properties of ChangeStore::new and of the frame of insert_in_place *)

\* no change was inserted into the open batch since the store was created
Fresh == \A k \in BatchKeys : hist[k] = << >>

\* C11 (initial state): the store ChangeStore::new() returns has an empty id_queue and
\* an open batch without keys, and serializing the open batch of a fresh store, under
\* any identifier, yields no records.
C11_InitialState ==
    /\ last = "new" => (id_queue = << >> /\ DOMAIN batch = {})
    /\ (last = "serialize" /\ Fresh) => (emitted = << >> /\ id_queue = << >>)

\* the open batch of a fresh store was serialized under the two-byte identifier
C11_Witness ==
    /\ last = "serialize"
    /\ Fresh
    /\ id = <<7, 1>>
    /\ emitted = << >>

\* C14 (frame of insert_in_place): a call insert_in_place(K, c) removes no key from
\* the batch, leaves the Change of every key other than K as it was, and the key set
\* after the call is the key set before it plus K.
C14_InsertFrame ==
    [][last' = "insert_in_place" =>
          \E key \in BatchKeys :
              /\ hist'[key] # hist[key]
              /\ DOMAIN batch' = DOMAIN batch \cup {key}
              /\ \A k \in DOMAIN batch \ {key} : batch'[k] = batch[k]]_vars

\* a batch of two keys, one of them having received two different changes
C14_Witness ==
    /\ last = "insert_in_place"
    /\ Cardinality(DOMAIN batch) = 2
    /\ \E key \in DOMAIN batch : Len(hist[key]) = 2 /\ hist[key][1] # hist[key][2]

----------------------------------------------------------------------------
(* Properties of deserialize on record lists that are not grouped *)

\* the positions at which a group of records of the trie key k starts in recs
GroupStarts(idb, recs, k) ==
    {i \in 1..Len(recs) :
        /\ TrieKeyOf(idb, recs[i][1]) = k
        /\ (i = 1 \/ TrieKeyOf(idb, recs[i - 1][1]) # k)}
\* the last position of the group that starts at position i
GroupEnd(idb, recs, i) ==
    CHOOSE j \in i..Len(recs) :
        /\ \A l \in i..j : TrieKeyOf(idb, recs[l][1]) = TrieKeyOf(idb, recs[i][1])
        /\ (j = Len(recs) \/ TrieKeyOf(idb, recs[j + 1][1]) # TrieKeyOf(idb, recs[i][1]))
\* the value the group that starts at i carries for a side (that of its last record
\* of that side), None if it has no record of that side
GroupSide(idb, recs, i, side) ==
    LET at == {j \in i..GroupEnd(idb, recs, i) : SideOf(recs[j][1]) = side}
    IN IF at = {} THEN << >>
       ELSE << recs[CHOOSE j \in at : \A l \in at : l <= j][2] >>
\* the old value of the first group of k that carries an old record, None if none does
FirstGroupOld(idb, recs, k) ==
    LET with == {i \in GroupStarts(idb, recs, k) : GroupSide(idb, recs, i, 1) # << >>}
    IN IF with = {} THEN << >>
       ELSE GroupSide(idb, recs, CHOOSE i \in with : \A l \in with : i <= l, 1)
\* the new value of the last group of k
LastGroupNew(idb, recs, k) ==
    GroupSide(idb, recs,
              CHOOSE i \in GroupStarts(idb, recs, k) : \A l \in GroupStarts(idb, recs, k) : l <= i,
              0)

\* C12 (split groups): when the records of a trie key reach deserialize in two or more
\* groups that are not adjacent, no error is raised, the key's old_value is the old
\* value of the first group that carries an old record, and its new_value is that of
\* the last group only: absent when the last group carries no new record.
C12_SplitGroups ==
    (last = "deserialize" /\ Malformed(id, input) = {}) =>
        \A k \in {TrieKeyOf(id, input[i][1]) : i \in 1..Len(input)} :
            Cardinality(GroupStarts(id, input, k)) >= 2 =>
                /\ outcome = "ok"
                /\ k \in DOMAIN restored
                /\ restored[k].old_value = FirstGroupOld(id, input, k)
                /\ restored[k].new_value = LastGroupNew(id, input, k)

\* a key with a new record, a record of another key, then the old record of the first
\* key: its new value is lost
C12_Witness ==
    /\ last = "deserialize"
    /\ outcome = "ok"
    /\ Len(input) = 3
    /\ TrieKeyOf(id, input[1][1]) = TrieKeyOf(id, input[3][1])
    /\ TrieKeyOf(id, input[1][1]) # TrieKeyOf(id, input[2][1])
    /\ SideOf(input[1][1]) = 0
    /\ SideOf(input[3][1]) = 1
    /\ restored[TrieKeyOf(id, input[1][1])] = [old_value |-> <<input[3][2]>>, new_value |-> << >>]

\* C13 (no inert entry): whenever deserialize returns, every Change of the batch it
\* returns has old_value or new_value present, and for an empty record list the batch
\* is empty.
C13_NoInertEntry ==
    (last = "deserialize" /\ outcome = "ok") =>
        /\ \A k \in DOMAIN restored : ~IsInert(restored[k])
        /\ input = << >> => restored = EmptyBatch

\* a list that is neither grouped nor free of duplicates was deserialized
C13_Witness ==
    /\ last = "deserialize"
    /\ outcome = "ok"
    /\ Len(input) = 3
    /\ input[1][1] = input[3][1]
    /\ ~Grouped(id, input)
    /\ Cardinality(DOMAIN restored) = 2

----------------------------------------------------------------------------
(* Properties of deserialize on records with foreign prefixes *)

\* the records of recs, the first len(id) + 1 bytes of every key replaced by the
\* identifier and the separator
OwnPrefix(idb, recs) ==
    [i \in 1..Len(recs) |->
        << idb \o <<0>> \o SubSeq(recs[i][1], Len(idb) + 2, Len(recs[i][1])), recs[i][2] >>]

\* C15 (the prefix is not validated): deserialize returns for a record list the batch
\* it returns for the list with the first len(id) + 1 bytes of every record key
\* replaced by the identifier and the separator, so two lists that differ only in
\* these bytes give the same batch; a record with another identifier's prefix or
\* another byte for the separator raises no error, and the keys of the batch are the
\* trie keys built from the bytes after position len(id) + 1.
C15_PrefixIgnored ==
    last = "deserialize" =>
        /\ outcome = "ok"
        /\ deserialize(id, OwnPrefix(id, input)) = [panic |-> "", change_batch |-> restored]
        /\ DOMAIN restored = {TrieKeyOf(id, input[i][1]) : i \in 1..Len(input)}

\* the two records of one trie key, one under another identifier and one without the
\* separator, were merged into one entry, after a record under the own prefix
C15_Witness ==
    /\ last = "deserialize"
    /\ outcome = "ok"
    /\ Len(input) = 3
    /\ SubSeq(input[1][1], 1, Len(id) + 1) = id \o <<0>>
    /\ SubSeq(input[2][1], 1, Len(id)) # id
    /\ input[3][1][Len(id) + 1] # 0
    /\ TrieKeyOf(id, input[2][1]) = TrieKeyOf(id, input[3][1])
    /\ TrieKeyOf(id, input[1][1]) # TrieKeyOf(id, input[2][1])
    /\ SideOf(input[2][1]) # SideOf(input[3][1])
    /\ restored[TrieKeyOf(id, input[2][1])].old_value # << >>
    /\ restored[TrieKeyOf(id, input[2][1])].new_value # << >>

====
